---- MODULE Spec2Model ----
(***************************************************************************)
(* Model of candid-inference-impl/scripts/export_model_template.py: the    *)
(* XGBoost -> ONNX export pipeline (main) and the functions it calls.      *)
(*                                                                         *)
(* Numbers: the script's floats are integer valued wherever the script     *)
(* fixes them (codes 0.0 .. 4.0, counts, ages); the uniform claim amounts  *)
(* are drawn on the integer grid of [1000, 50000).  A Python None or an    *)
(* unbound local is the empty sequence, a bound one a sequence.            *)
(***************************************************************************)
EXTENDS Integers, Sequences, FiniteSets, TLC

VARIABLES
    entry,               \* the function the process runs: main, or one called directly
    arg_path,            \* output_path given by a direct caller ("default": left out)
    stream,              \* which stream the seeded generators produce
    pc,                  \* position in main's sequence of calls (1-based)
    at,                  \* position inside the function being executed
    exc,                 \* <<>>, or <<f>>: an exception left function f (no handler anywhere)
    X, y,                \* create_sample_data's result
    X_train, y_train,    \* main's splits
    X_temp, y_temp,
    X_val, y_val,
    X_test, y_test,
    model,               \* the fitted XGBClassifier
    onnx_model,          \* export_to_onnx's converted graph
    metadata,            \* export_feature_metadata's dict
    calibrated,          \* calibrate_and_export's fitted calibrator
    calibration_params,  \* calibrate_and_export's dict
    files,               \* the working directory
    stdout               \* the lines printed (the stage banners and the save notices)

vars == << entry, arg_path, stream, pc, at, exc, X, y, X_train, y_train, X_temp, y_temp,
           X_val, y_val, X_test, y_test, model, onnx_model, metadata, calibrated,
           calibration_params, files, stdout >>

(***************************************************************************)
(* Bounds of the model.                                                    *)
(***************************************************************************)
\* streams 0..MaxStream of the generators seeded at lines 36, 73, 224, 225
MaxStream == 5
\* rows of the synthetic data set (1000 in the script, line 37)
n_samples == 20
\* widest model handed to export_to_onnx by a direct caller
MaxWidth == 7
\* longest validation split handed to calibrate_and_export by a direct caller
MaxVal == 3
\* Platt parameters the fit can return: -MaxParam..MaxParam
MaxParam == 1

(***************************************************************************)
(* The seeded generators.  The script fixes the seed (42), so each run     *)
(* sees one stream; which one is the library's business, so Init picks it. *)
(* Draw k of stream s:                                                     *)
(***************************************************************************)
Rand(s, k) ==
    ((k + 1) * 7919 + (s + 1) * 10473 + (k + 1) * (s + 1) * 31 + (k + 1) * (k + 1) * 17)
        % 65521

\* np.random.uniform(low, high): a value of [low, high)
uniform(r, low, high) == low + (r % (high - low))

\* np.random.randint(low, high): an integer of [low, high)
randint(r, low, high) == low + (r % (high - low))

\* np.random.random() < p, p in tenths
random_lt(r, tenths) == (r % 10) < tenths

(***************************************************************************)
(* create_sample_data (lines 31-61).                                       *)
(***************************************************************************)
\* the [low, high) arguments of the draws, lines 40-46
claim_amounts_range == << 1000, 50000 >>
patient_ages_range == << 18, 90 >>
procedure_categories_range_wide == << 0, 5 >>

procedure_categories_range == << 0, 4 >>
provider_states_range == << 0, 4 >>
prior_denials_range == << 0, 5 >>

\* the five local arrays, in the order they are drawn; draw i of array c is
\* draw (c - 1) * n_samples + i - 1 of the stream
local_arrays(s) ==
    [ claim_amounts |->
        [i \in 1..n_samples |->
            uniform(Rand(s, i - 1), claim_amounts_range[1], claim_amounts_range[2])],
      patient_ages |->
        [i \in 1..n_samples |->
            randint(Rand(s, n_samples + i - 1),
                    patient_ages_range[1], patient_ages_range[2])],
      procedure_categories |->
        [i \in 1..n_samples |->
            randint(Rand(s, 2 * n_samples + i - 1),
                    procedure_categories_range[1], procedure_categories_range[2])],
      provider_states |->
        [i \in 1..n_samples |->
            randint(Rand(s, 3 * n_samples + i - 1),
                    provider_states_range[1], provider_states_range[2])],
      prior_denials |->
        [i \in 1..n_samples |->
            randint(Rand(s, 4 * n_samples + i - 1),
                    prior_denials_range[1], prior_denials_range[2])] ]

\* the argument list of np.column_stack (lines 49-55), and a slip of it
stacked_swapped ==
    << "claim_amounts", "patient_ages", "provider_states", "procedure_categories",
       "prior_denials" >>

stacked ==
    << "claim_amounts", "patient_ages", "procedure_categories", "provider_states",
       "prior_denials" >>

\* np.column_stack: row i holds element i of every array, in argument order
column_stack(arrays) ==
    [i \in 1..Len(arrays[1]) |-> [k \in 1..Len(arrays) |-> arrays[k][i]]]

\* denial_prob in tenths (line 58)
denial_prob(amount, denials) ==
    (IF amount > 20000 THEN 5 ELSE 0) + (IF denials > 2 THEN 3 ELSE 0)

create_sample_data(s) ==
    LET a == local_arrays(s)
    IN  [ X |-> column_stack([k \in 1..Len(stacked) |-> a[stacked[k]]]),
          y |-> [i \in 1..n_samples |->
                    IF random_lt(Rand(s, 5 * n_samples + i - 1),
                                 denial_prob(a.claim_amounts[i], a.prior_denials[i]))
                    THEN 1 ELSE 0] ]

(***************************************************************************)
(* sklearn's train_test_split as main calls it (lines 224-225): a shuffle  *)
(* by a generator of its own (random_state=42), the first n_test shuffled  *)
(* rows are the test part, the rest the train part.                        *)
(***************************************************************************)
\* ceil(n * test_size), test_size = ts[1] / ts[2]
n_test_of(n, ts) == (n * ts[1] + ts[2] - 1) \div ts[2]

permutation(s, n) ==
    LET key(i) == Rand(s + 100, i)
        rank(i) == Cardinality({j \in 1..n : key(j) < key(i) \/ (key(j) = key(i) /\ j < i)})
    IN  [p \in 1..n |-> CHOOSE i \in 1..n : rank(i) = p - 1]

take(seq, idx) == [k \in 1..Len(idx) |-> seq[idx[k]]]

train_test_split(Xs, ys, ts, s) ==
    LET n == Len(Xs)
        n_test == n_test_of(n, ts)
        perm == permutation(s, n)
        test == SubSeq(perm, 1, n_test)
        train == SubSeq(perm, n_test + 1, n)
    IN  [ X_train |-> take(Xs, train), X_test |-> take(Xs, test),
          y_train |-> take(ys, train), y_test |-> take(ys, test) ]

\* the test_size arguments of the two calls
test_size_temp == << 3, 10 >>
test_size_test == << 5, 10 >>

(***************************************************************************)
(* train_model (lines 64-79): what the script reads of the fitted model.   *)
(***************************************************************************)
train_model(Xt, yt) ==
    [ n_features_in |-> Len(Xt[1]),
      classes |-> {yt[i] : i \in 1..Len(yt)},
      n_estimators |-> 10,
      max_depth |-> 3 ]

(***************************************************************************)
(* export_to_onnx (lines 82-108).                                          *)
(***************************************************************************)
Paths ==
    { "claim_denial_model.onnx", "feature_metadata.json", "calibration_params.json",
      "other.out" }

\* the default of each function's output_path parameter (lines 82, 111, 171)
default_path_shared ==
    [ export_to_onnx |-> "claim_denial_model.onnx",
      export_feature_metadata |-> "calibration_params.json",
      calibrate_and_export |-> "calibration_params.json" ]

default_path ==
    [ export_to_onnx |-> "claim_denial_model.onnx",
      export_feature_metadata |-> "feature_metadata.json",
      calibrate_and_export |-> "calibration_params.json" ]

\* line 95: one input, float_input, FloatTensorType([None, 5])
initial_type_narrow ==
    << [ name |-> "float_input", elem |-> "float32", batch |-> "None", width |-> 4 ] >>

initial_type ==
    << [ name |-> "float_input", elem |-> "float32", batch |-> "None", width |-> 5 ] >>

\* onnxmltools.convert_xgboost(model, initial_types=..., target_opset=12): the graph
\* declares the input it is told to declare and carries the trees of the model
convert_xgboost(m, initial_types, target_opset) ==
    [ input |-> initial_types[1],
      opset |-> target_opset,
      tree_features |-> m.n_features_in,
      outputs |-> << "label", "probabilities" >> ]

(***************************************************************************)
(* export_feature_metadata (lines 111-168): the dict of lines 120-162.     *)
(***************************************************************************)
feature_metadata_index_twice ==
    [ features |-> <<
        [ name |-> "claim_amount", type |-> "NUMERIC", index |-> 0 ],
        [ name |-> "patient_age", type |-> "NUMERIC", index |-> 1 ],
        [ name |-> "procedure_category", type |-> "CATEGORICAL", index |-> 2,
          mapping |-> [ SURGERY |-> 0, DIAGNOSTIC |-> 1, THERAPY |-> 2, EMERGENCY |-> 3,
                        UNKNOWN |-> 4 ] ],
        [ name |-> "provider_state", type |-> "CATEGORICAL", index |-> 3,
          mapping |-> [ CA |-> 0, NY |-> 1, TX |-> 2, FL |-> 3, UNKNOWN |-> 4 ] ],
        [ name |-> "prior_denials", type |-> "NUMERIC", index |-> 3 ] >> ]

feature_metadata_unknown_reused ==
    [ features |-> <<
        [ name |-> "claim_amount", type |-> "NUMERIC", index |-> 0 ],
        [ name |-> "patient_age", type |-> "NUMERIC", index |-> 1 ],
        [ name |-> "procedure_category", type |-> "CATEGORICAL", index |-> 2,
          mapping |-> [ SURGERY |-> 0, DIAGNOSTIC |-> 1, THERAPY |-> 2, EMERGENCY |-> 3,
                        UNKNOWN |-> 4 ] ],
        [ name |-> "provider_state", type |-> "CATEGORICAL", index |-> 3,
          mapping |-> [ CA |-> 0, NY |-> 1, TX |-> 2, FL |-> 3, UNKNOWN |-> 3 ] ],
        [ name |-> "prior_denials", type |-> "NUMERIC", index |-> 4 ] >> ]

feature_metadata ==
    [ features |-> <<
        [ name |-> "claim_amount", type |-> "NUMERIC", index |-> 0 ],
        [ name |-> "patient_age", type |-> "NUMERIC", index |-> 1 ],
        [ name |-> "procedure_category", type |-> "CATEGORICAL", index |-> 2,
          mapping |-> [ SURGERY |-> 0, DIAGNOSTIC |-> 1, THERAPY |-> 2, EMERGENCY |-> 3,
                        UNKNOWN |-> 4 ] ],
        [ name |-> "provider_state", type |-> "CATEGORICAL", index |-> 3,
          mapping |-> [ CA |-> 0, NY |-> 1, TX |-> 2, FL |-> 3, UNKNOWN |-> 4 ] ],
        [ name |-> "prior_denials", type |-> "NUMERIC", index |-> 4 ] >> ]

(***************************************************************************)
(* calibrate_and_export (lines 171-210): the dict of lines 196-202.        *)
(***************************************************************************)
calibration_params_of(calibrator) ==
    [ type |-> "PLATT_SCALING",
      parameters |-> [ a |-> calibrator.a_, b |-> calibrator.b_ ] ]

(***************************************************************************)
(* main (lines 213-267): the calls it makes, in order.                     *)
(***************************************************************************)
main_calls_schema_first ==
    << "create_sample_data", "split_train_temp", "split_val_test",
       "export_feature_metadata", "train_model", "score", "export_to_onnx",
       "calibrate_and_export", "summary" >>

main_calls ==
    << "create_sample_data", "split_train_temp", "split_val_test", "train_model",
       "score", "export_to_onnx", "export_feature_metadata", "calibrate_and_export",
       "summary" >>

\* the function being executed: main's current call, or the one called directly
Callee ==
    IF entry = "main"
    THEN IF pc <= Len(main_calls) THEN main_calls[pc] ELSE "returned"
    ELSE IF pc = 1 THEN entry ELSE "returned"

In(f, a) == exc = << >> /\ Callee = f /\ at = a

\* the output_path the current call of f writes to: main passes none (lines 243-251)
output_path(f) ==
    IF entry = "main" \/ arg_path = "default" THEN default_path[f] ELSE arg_path

\* main's banner before a call; a direct caller prints none
banner(line) == IF entry = "main" THEN << line >> ELSE << >>

\* open(path, 'w') ... dump: the file holds what was dumped
written(p, content) ==
    [files EXCEPT ![p] = [ writes |-> @.writes + 1, state |-> "complete",
                           content |-> << content >> ]]

\* open(path, 'w') and an exception before the dump ends: the file is left truncated
truncated(p) ==
    [files EXCEPT ![p] = [ writes |-> @.writes + 1, state |-> "partial",
                           content |-> << >> ]]

no_files == [p \in Paths |-> [ writes |-> 0, state |-> "absent", content |-> << >> ]]

(***************************************************************************)
(* Initial states.                                                         *)
(***************************************************************************)
Streams == 0..MaxStream

\* python export_model.py: main() is the entry point (lines 270-271)
Init ==
    /\ entry = "main"
    /\ arg_path = "default"
    /\ stream \in Streams
    /\ pc = 1
    /\ at = "entry"
    /\ exc = << >>
    /\ X = << >> /\ y = << >>
    /\ X_train = << >> /\ y_train = << >>
    /\ X_temp = << >> /\ y_temp = << >>
    /\ X_val = << >> /\ y_val = << >>
    /\ X_test = << >> /\ y_test = << >>
    /\ model = << >>
    /\ onnx_model = << >>
    /\ metadata = << >>
    /\ calibrated = << >>
    /\ calibration_params = << >>
    /\ files = no_files
    /\ stdout = << >>

\* export_to_onnx(model, output_path) called on its own, with any fitted model
InitExport ==
    /\ entry = "export_to_onnx"
    /\ arg_path \in Paths \cup {"default"}
    /\ stream = 0
    /\ pc = 1
    /\ at = "entry"
    /\ exc = << >>
    /\ X = << >> /\ y = << >>
    /\ X_train = << >> /\ y_train = << >>
    /\ X_temp = << >> /\ y_temp = << >>
    /\ X_val = << >> /\ y_val = << >>
    /\ X_test = << >> /\ y_test = << >>
    /\ \E w \in 1..MaxWidth, c \in {{0}, {1}, {0, 1}} :
          model = << [ n_features_in |-> w, classes |-> c,
                       n_estimators |-> 10, max_depth |-> 3 ] >>
    /\ onnx_model = << >>
    /\ metadata = << >>
    /\ calibrated = << >>
    /\ calibration_params = << >>
    /\ files = no_files
    /\ stdout = << >>

\* calibrate_and_export(model, X_val, y_val, output_path) called on its own, with a
\* model fitted on a sample data set and any validation split of up to MaxVal rows
InitCalib ==
    /\ entry = "calibrate_and_export"
    /\ arg_path \in Paths \cup {"default"}
    /\ stream \in Streams
    /\ pc = 1
    /\ at = "entry"
    /\ exc = << >>
    /\ X = << >> /\ y = << >>
    /\ X_train = << >> /\ y_train = << >>
    /\ X_temp = << >> /\ y_temp = << >>
    /\ X_test = << >> /\ y_test = << >>
    /\ \E k \in 0..MaxVal :
          /\ X_val = SubSeq(create_sample_data(stream).X, 1, k)
          /\ y_val \in [1..k -> {0, 1}]
    /\ model = << train_model(create_sample_data(stream).X, create_sample_data(stream).y) >>
    /\ onnx_model = << >>
    /\ metadata = << >>
    /\ calibrated = << >>
    /\ calibration_params = << >>
    /\ files = no_files
    /\ stdout = << >>

(***************************************************************************)
(* Steps.                                                                  *)
(***************************************************************************)
Return == pc' = pc + 1 /\ at' = "entry"

call_vars == << entry, arg_path, stream >>
data_vars == << X, y >>
split_vars == << X_train, y_train, X_temp, y_temp, X_val, y_val, X_test, y_test >>
export_vars == << onnx_model, metadata, calibrated, calibration_params >>

\* lines 217-223 and 31-61
CreateSampleData ==
    /\ In("create_sample_data", "entry")
    /\ LET d == create_sample_data(stream)
       IN  X' = d.X /\ y' = d.y
    /\ stdout' = stdout \o banner("XGBoost to ONNX Export Pipeline")
                        \o banner("1. Creating sample data...")
    /\ Return
    /\ UNCHANGED << call_vars, exc, split_vars, model, export_vars, files >>

\* line 224; sklearn raises when a part would be empty
SplitTrainTemp ==
    /\ In("split_train_temp", "entry")
    /\ n_test_of(Len(X), test_size_temp) \in 1..(Len(X) - 1)
    /\ LET r == train_test_split(X, y, test_size_temp, stream)
       IN  /\ X_train' = r.X_train /\ y_train' = r.y_train
           /\ X_temp' = r.X_test /\ y_temp' = r.y_test
    /\ Return
    /\ UNCHANGED << call_vars, exc, data_vars, X_val, y_val, X_test, y_test, model,
                    export_vars, files, stdout >>

\* lines 225-229
SplitValTest ==
    /\ In("split_val_test", "entry")
    /\ n_test_of(Len(X_temp), test_size_test) \in 1..(Len(X_temp) - 1)
    /\ LET r == train_test_split(X_temp, y_temp, test_size_test, stream)
       IN  /\ X_val' = r.X_train /\ y_val' = r.y_train
           /\ X_test' = r.X_test /\ y_test' = r.y_test
    /\ stdout' = stdout \o banner("Train/Val/Test samples")
    /\ Return
    /\ UNCHANGED << call_vars, exc, data_vars, X_train, y_train, X_temp, y_temp, model,
                    export_vars, files >>

\* lines 232-233 and 64-79
TrainModel ==
    /\ In("train_model", "entry")
    /\ model' = << train_model(X_train, y_train) >>
    /\ stdout' = stdout \o banner("2. Training XGBoost model...")
    /\ Return
    /\ UNCHANGED << call_vars, exc, data_vars, split_vars, export_vars, files >>

\* lines 236-239: model.score on the train and test parts, printed
Score ==
    /\ In("score", "entry")
    /\ model # << >>
    /\ stdout' = stdout \o banner("Train/Test accuracy")
    /\ Return
    /\ UNCHANGED << call_vars, exc, data_vars, split_vars, model, export_vars, files >>

\* lines 242, 93-102
ConvertXgboost ==
    /\ In("export_to_onnx", "entry")
    /\ model # << >>
    /\ onnx_model' = << convert_xgboost(model[1], initial_type, 12) >>
    /\ stdout' = stdout \o banner("3. Exporting to ONNX...")
    /\ at' = "save"
    /\ UNCHANGED << call_vars, pc, exc, data_vars, split_vars, model, metadata,
                    calibrated, calibration_params, files >>

\* lines 104-108
SaveModel ==
    /\ In("export_to_onnx", "save")
    /\ files' = written(output_path("export_to_onnx"), onnx_model[1])
    /\ stdout' = stdout \o << "ONNX model saved" >>
    /\ Return
    /\ UNCHANGED << call_vars, exc, data_vars, split_vars, model, export_vars >>

\* lines 246, 120-162
BuildMetadata ==
    /\ In("export_feature_metadata", "entry")
    /\ metadata' = << feature_metadata >>
    /\ stdout' = stdout \o banner("4. Exporting feature metadata...")
    /\ at' = "dump"
    /\ UNCHANGED << call_vars, pc, exc, data_vars, split_vars, model, onnx_model,
                    calibrated, calibration_params, files >>

\* lines 164-168
DumpMetadata ==
    /\ In("export_feature_metadata", "dump")
    /\ files' = written(output_path("export_feature_metadata"), metadata[1])
    /\ stdout' = stdout \o << "Feature metadata saved" >>
    /\ Return
    /\ UNCHANGED << call_vars, exc, data_vars, split_vars, model, export_vars >>

\* lines 250, 184-190: the fit is sklearn's; the script checks nothing of X_val, y_val
\* before it, and whatever (a, b) the fit returns is what the script goes on with
FitCalibration ==
    /\ In("calibrate_and_export", "entry")
    /\ model # << >>
    /\ \E a \in (0 - MaxParam)..MaxParam, b \in (0 - MaxParam)..MaxParam :
          calibrated' = << [ a_ |-> a, b_ |-> b ] >>
    /\ stdout' = stdout \o banner("5. Calibrating model and exporting parameters...")
    /\ at' = "params"
    /\ UNCHANGED << call_vars, pc, exc, data_vars, split_vars, model, onnx_model,
                    metadata, calibration_params, files >>

\* lines 194-202
BuildParams ==
    /\ In("calibrate_and_export", "params")
    /\ calibration_params' = << calibration_params_of(calibrated[1]) >>
    /\ at' = "dump"
    /\ UNCHANGED << call_vars, pc, exc, data_vars, split_vars, model, onnx_model,
                    metadata, calibrated, files, stdout >>

\* lines 204-210
DumpParams ==
    /\ In("calibrate_and_export", "dump")
    /\ files' = written(output_path("calibrate_and_export"), calibration_params[1])
    /\ stdout' = stdout \o << "Calibration parameters saved" >>
    /\ Return
    /\ UNCHANGED << call_vars, exc, data_vars, split_vars, model, export_vars >>

\* lines 253-267
Summary ==
    /\ In("summary", "entry")
    /\ stdout' = stdout \o << "Export complete!" >>
    /\ Return
    /\ UNCHANGED << call_vars, exc, data_vars, split_vars, model, export_vars, files >>

\* a call of the current function raises: nothing in the script catches, so the
\* exception leaves main and the process ends
Raise ==
    /\ exc = << >>
    /\ Callee # "returned"
    /\ exc' = << Callee >>
    /\ UNCHANGED << call_vars, pc, at, data_vars, split_vars, model, export_vars, files,
                    stdout >>

\* the write itself raises after open(path, 'w') (lines 105, 164-165, 204-205)
RaiseInWrite ==
    /\ exc = << >>
    /\ Callee \in DOMAIN default_path
    /\ at \in {"save", "dump"}
    /\ files' = truncated(output_path(Callee))
    /\ exc' = << Callee >>
    /\ UNCHANGED << call_vars, pc, at, data_vars, split_vars, model, export_vars, stdout >>

Next ==
    \/ CreateSampleData
    \/ SplitTrainTemp
    \/ SplitValTest
    \/ TrainModel
    \/ Score
    \/ ConvertXgboost
    \/ SaveModel
    \/ BuildMetadata
    \/ DumpMetadata
    \/ FitCalibration
    \/ BuildParams
    \/ DumpParams
    \/ Summary
    \/ Raise
    \/ RaiseInWrite

Spec == Init /\ [][Next]_vars

NextExport ==
    \/ ConvertXgboost
    \/ SaveModel
    \/ Raise
    \/ RaiseInWrite

SpecExport == InitExport /\ [][NextExport]_vars

NextCalib ==
    \/ FitCalibration
    \/ BuildParams
    \/ DumpParams
    \/ Raise
    \/ RaiseInWrite

SpecCalib == InitCalib /\ [][NextCalib]_vars

(***************************************************************************)
(* Vocabulary of the properties.                                           *)
(***************************************************************************)
ONNX == "claim_denial_model.onnx"
META == "feature_metadata.json"
CALIB == "calibration_params.json"
ArtifactFiles == { ONNX, META, CALIB }

Range(seq) == {seq[i] : i \in 1..Len(seq)}

\* the run opened p for writing / wrote p to the end
Written(p) == files[p].writes > 0
Complete(p) == files[p].state = "complete"

\* the function run returned normally / the run is over
Returned == exc = << >> /\ Callee = "returned"
Ended == exc # << >> \/ Callee = "returned"

\* the local array of create_sample_data that carries each feature of the metadata
\* (lines 40-46 against the names of lines 123-157)
feature_array ==
    [ claim_amount |-> "claim_amounts",
      patient_age |-> "patient_ages",
      procedure_category |-> "procedure_categories",
      provider_state |-> "provider_states",
      prior_denials |-> "prior_denials" ]

\* the values randint can give each categorical array
array_values ==
    [ procedure_categories |->
        procedure_categories_range[1]..(procedure_categories_range[2] - 1),
      provider_states |-> provider_states_range[1]..(provider_states_range[2] - 1) ]

Column(rows, k) == {rows[i][k] : i \in 1..Len(rows)}

KnownCodes(e) == {e.mapping[l] : l \in DOMAIN e.mapping \ {"UNKNOWN"}}

\* the features list of the metadata file as written
PublishedFeatures == files[META].content[1].features

(***************************************************************************)
(* C1.  All-or-nothing artifact set: when a run of main has ended, either  *)
(* a stage failed and the run left none of the three artifact files        *)
(* written out, or no stage failed and it wrote all three.                 *)
(***************************************************************************)
C1_AllOrNothing ==
    (entry = "main" /\ Ended) =>
        IF exc # << >>
        THEN \A p \in ArtifactFiles : ~Complete(p)
        ELSE \A p \in ArtifactFiles : Complete(p)

(***************************************************************************)
(* C2.  Shape agreement: once main has written the model artifact, the     *)
(* input width it declares, the number of columns of the training matrix   *)
(* and the number of entries of the features list (built, and written once *)
(* it is written) are one number.                                          *)
(***************************************************************************)
C2_ShapeAgreement ==
    (entry = "main" /\ Complete(ONNX)) =>
        LET N == files[ONNX].content[1].input.width
        IN  /\ \A i \in 1..Len(X) : Len(X[i]) = N
            /\ \A i \in 1..Len(X_train) : Len(X_train[i]) = N
            /\ model[1].n_features_in = N
            /\ metadata # << >> => Len(metadata[1].features) = N
            /\ Complete(META) => Len(PublishedFeatures) = N

C2_Witness ==
    /\ entry = "main"
    /\ Complete(ONNX) /\ Complete(META)
    /\ Len(X_train) > 0
    /\ files[ONNX].content[1].input.width = Len(PublishedFeatures)

(***************************************************************************)
(* C3.  Shape mismatch is rejected: when export_to_onnx is called with a   *)
(* model whose training width differs from the schema's feature count, the *)
(* call never returns normally and never writes out the artifact file.     *)
(***************************************************************************)
C3_ShapeMismatchRejected ==
    (entry = "export_to_onnx"
        /\ model[1].n_features_in # Len(feature_metadata.features)) =>
        /\ ~Returned
        /\ \A p \in Paths : ~Complete(p)

(***************************************************************************)
(* C4.  Schema index coverage: in the metadata file as written, the index  *)
(* values of the N entries are pairwise distinct and are exactly 0..N-1,   *)
(* and the names are pairwise distinct.                                    *)
(***************************************************************************)
C4_SchemaIndexCoverage ==
    Complete(META) =>
        LET fs == PublishedFeatures
            N == Len(fs)
        IN  /\ {fs[k].index : k \in 1..N} = 0..(N - 1)
            /\ \A j, k \in 1..N : j # k => fs[j].index # fs[k].index
            /\ \A j, k \in 1..N : j # k => fs[j].name # fs[k].name

C4_Witness ==
    /\ Complete(META)
    /\ Len(PublishedFeatures) = 5
    /\ \A k \in 1..5 : PublishedFeatures[k].index = k - 1

(***************************************************************************)
(* C5.  Unknown fallback uniqueness: in the metadata file as written every *)
(* CATEGORICAL entry has a mapping with the key UNKNOWN, the codes of the  *)
(* mapping are pairwise distinct (so the UNKNOWN code is no known label's  *)
(* code), and every NUMERIC entry has no mapping.                          *)
(***************************************************************************)
C5_UnknownFallbackUnique ==
    Complete(META) =>
        \A k \in 1..Len(PublishedFeatures) :
            LET e == PublishedFeatures[k]
            IN  /\ e.type \in {"NUMERIC", "CATEGORICAL"}
                /\ e.type = "NUMERIC" => "mapping" \notin DOMAIN e
                /\ e.type = "CATEGORICAL" =>
                      /\ "mapping" \in DOMAIN e
                      /\ "UNKNOWN" \in DOMAIN e.mapping
                      /\ \A l1, l2 \in DOMAIN e.mapping :
                            l1 # l2 => e.mapping[l1] # e.mapping[l2]
                      /\ e.mapping["UNKNOWN"] \notin KnownCodes(e)

C5_Witness ==
    /\ Complete(META)
    /\ \E k \in 1..Len(PublishedFeatures) :
          /\ PublishedFeatures[k].type = "CATEGORICAL"
          /\ Cardinality(DOMAIN PublishedFeatures[k].mapping) = 5
    /\ \E k \in 1..Len(PublishedFeatures) : PublishedFeatures[k].type = "NUMERIC"

(***************************************************************************)
(* C6.  Single-class rejection: when calibrate_and_export is called with   *)
(* validation labels that are all 0, all 1 or empty, the call never        *)
(* returns normally and never writes out a calibration file.               *)
(***************************************************************************)
C6_SingleClassRejected ==
    (entry = "calibrate_and_export" /\ Cardinality(Range(y_val)) <= 1) =>
        /\ ~Returned
        /\ \A p \in Paths : ~Complete(p)

C8_SuccessfulRunOutputs ==
    (entry = "main" /\ "Export complete!" \in Range(stdout)) =>
        \A p \in Paths :
            IF p \in ArtifactFiles
            THEN files[p].writes = 1 /\ Complete(p)
            ELSE files[p].writes = 0

C8_Witness ==
    /\ entry = "main"
    /\ "Export complete!" \in Range(stdout)
    /\ \A p \in ArtifactFiles : files[p].writes = 1

(***************************************************************************)
(* C9.  Training layout follows the schema: for every entry of the         *)
(* metadata as written, with index k, column k of the training matrix is   *)
(* the local array of that feature, in X and in the rows main trains on.   *)
(***************************************************************************)
C9_TrainingLayoutFollowsSchema ==
    (entry = "main" /\ Complete(META)) =>
        /\ Len(X) = n_samples
        /\ \A k \in 1..Len(PublishedFeatures) :
              LET e == PublishedFeatures[k]
                  a == local_arrays(stream)[feature_array[e.name]]
              IN  /\ stacked[e.index + 1] = feature_array[e.name]
                  /\ \A i \in 1..Len(X) : X[i][e.index + 1] = a[i]
        /\ Range(X_train) \subseteq Range(X)

C9_Witness ==
    /\ entry = "main"
    /\ Complete(META)
    /\ Len(X_train) > 0
    /\ \E i \in 1..Len(X) : X[i][3] # X[i][4]

(***************************************************************************)
(* C10.  Categorical encoding consistency: for every CATEGORICAL entry of  *)
(* the metadata as written, the values randint can give its array are      *)
(* exactly the codes of its known labels, every value of its column in X   *)
(* and in the training rows is such a code, and its UNKNOWN code is not    *)
(* among them.                                                             *)
(***************************************************************************)
C10_CategoricalEncodingConsistent ==
    (entry = "main" /\ Complete(META)) =>
        \A k \in 1..Len(PublishedFeatures) :
            LET e == PublishedFeatures[k]
            IN  e.type = "CATEGORICAL" =>
                  /\ array_values[feature_array[e.name]] = KnownCodes(e)
                  /\ Column(X, e.index + 1) \subseteq KnownCodes(e)
                  /\ Column(X_train, e.index + 1) \subseteq KnownCodes(e)
                  /\ e.mapping["UNKNOWN"] \notin Column(X, e.index + 1)

C10_Witness ==
    /\ entry = "main"
    /\ Complete(META)
    /\ \A k \in 1..Len(PublishedFeatures) :
          PublishedFeatures[k].type = "CATEGORICAL" =>
              Column(X_train, PublishedFeatures[k].index + 1)
                  = KnownCodes(PublishedFeatures[k])

====
